---- MODULE Spec2Model ----
(***************************************************************************)
(* Model of the rule-matching and adaptive-switching engine of the card    *)
(* sorting game, as implemented by the two React components                *)
(*   src/src/CardSortingGame.tsx    (variant "2D")                          *)
(*   src/src/CardSortingGame3D.tsx  (variant "3D")                          *)
(* One step of the model is one task of the JavaScript event loop together *)
(* with the render React commits at its end: a click, a timer callback, or *)
(* the flush of a passive effect.  The values of the variables in a state  *)
(* are the values of the last committed render (and of gameStateRef).      *)
(***************************************************************************)
EXTENDS Integers, Sequences, FiniteSets, TLC

\* ---------------------------------------------------------------- bounds
\* accepted selections per session explored by the model
MaxAttempts == 6

\* ------------------------------------------------------------- constants
CARDS_TO_CHANGE_RULE == 5
\* setTimeout(..., 1000): the feedback window of both components
FEEDBACK_DELAY == 1000

\* variation: changeRule scheduled with the delay of the feedback window
ChangeRuleDelay_AsFeedback == FEEDBACK_DELAY

\* setTimeout(changeRule, 100) of the 3D component
CHANGE_RULE_DELAY == 100

Variants == {"2D", "3D"}
Rules == {"color", "shape", "number", "size"}
Colors == {"red", "blue", "green", "yellow"}
Shapes == {"circle", "square", "triangle", "star"}
Sizes == {"small", "medium", "large"}
Numbers == 1..4

\* the value null of previousRule and of feedback
Null == "null"
\* the value null of targetCard
NullCard == [color |-> Null, shape |-> Null, number |-> 0, size |-> Null]

\* every card generateNewCard can produce (the id is incidental)
Cards == [color : Colors, shape : Shapes, number : Numbers, size : Sizes]

\* variation: the 4th reference card is large instead of medium
referenceCards_FourthLarge ==
  << [color |-> "red",    shape |-> "circle",   number |-> 1, size |-> "small"],
     [color |-> "green",  shape |-> "triangle", number |-> 2, size |-> "medium"],
     [color |-> "blue",   shape |-> "star",     number |-> 3, size |-> "large"],
     [color |-> "yellow", shape |-> "square",   number |-> 4, size |-> "large"] >>

referenceCards ==
  << [color |-> "red",    shape |-> "circle",   number |-> 1, size |-> "small"],
     [color |-> "green",  shape |-> "triangle", number |-> 2, size |-> "medium"],
     [color |-> "blue",   shape |-> "star",     number |-> 3, size |-> "large"],
     [color |-> "yellow", shape |-> "square",   number |-> 4, size |-> "medium"] >>

\* how many times React invokes the updater passed to setStats for one
\* update: once, or twice (StrictMode double invocation, re-render)
UpdaterInvocations == {1, 2}

InitialStats ==
  [attempts |-> 0, correct |-> 0, perseverativeErrors |-> 0,
   ruleChanges |-> 0, streak |-> 0]

VARIABLES
  variant,        \* which component is mounted
  currentRule,    \* useState (2D) / gameStateRef.current.currentRule (3D)
  previousRule,   \* useState (2D) / gameStateRef.current.previousRule (3D)
  targetCard,     \* useState
  feedback,       \* useState: "correct", "incorrect" or Null
  stats,          \* useState: the committed GameStats
  isAnimating,    \* gameStateRef.current.isAnimating (3D only)
  timers,         \* pending setTimeout callbacks, in registration order
  effectPending,  \* 2D: the effect on [stats.streak] is scheduled
  \* history variables (not read by the program)
  lastEvent,      \* kind of the last step taken
  selected,       \* reference card of the evaluation whose feedback shows
  atSubmit,       \* currentRule, previousRule, stats when last evaluated
  evals,          \* evaluations of the current target card
  roundSwitches,  \* runs of changeRule since the current target was shown
  switches,       \* runs of changeRule since the session started
  twin            \* a 2D component fed the events of a 3D one (when on)

progVars ==
  <<currentRule, previousRule, targetCard, feedback, stats, isAnimating,
    timers, effectPending>>

vars ==
  <<variant, currentRule, previousRule, targetCard, feedback, stats,
    isAnimating, timers, effectPending, lastEvent, selected, atSubmit,
    evals, roundSwitches, switches, twin>>

\* ------------------------------------------------------------ pure parts
checkMatch(c1, c2, rule) == c1[rule] = c2[rule]

\* variation: the test !isMatch is left out
IsPerseverative_IgnoresMatch(target, refCard, isMatch, prevRule) ==
  /\ prevRule # Null
  /\ checkMatch(target, refCard, prevRule)

\* const isPerseverative = !isMatch && previousRule && checkMatch(...)
IsPerseverative(target, refCard, isMatch, prevRule) ==
  /\ ~isMatch
  /\ prevRule # Null
  /\ checkMatch(target, refCard, prevRule)

\* variation: a miss keeps the streak
NewStreak_KeepOnMiss(prev, isMatch) ==
  IF isMatch THEN prev.streak + 1 ELSE prev.streak

\* streak: isMatch ? prev.streak + 1 : 0
NewStreak(prev, isMatch) == IF isMatch THEN prev.streak + 1 ELSE 0

\* variation: correct is incremented on every evaluation
EvaluatedStats_AlwaysCorrect(prev, isMatch, isPersev) ==
  [attempts |-> prev.attempts + 1,
   correct |-> prev.correct + 1,
   streak |-> IF isMatch THEN prev.streak + 1 ELSE 0,
   ruleChanges |-> prev.ruleChanges,
   perseverativeErrors |->
     prev.perseverativeErrors + (IF isPersev THEN 1 ELSE 0)]

\* variation: a miss resets correct as if it were the streak
EvaluatedStats_ResetsCorrect(prev, isMatch, isPersev) ==
  [attempts |-> prev.attempts + 1,
   correct |-> IF isMatch THEN prev.correct + 1 ELSE 0,
   streak |-> IF isMatch THEN prev.streak + 1 ELSE 0,
   ruleChanges |-> prev.ruleChanges,
   perseverativeErrors |->
     prev.perseverativeErrors + (IF isPersev THEN 1 ELSE 0)]

\* the object returned by the updater of handleCardClick/handleCardSelection
EvaluatedStats(prev, isMatch, isPersev) ==
  [attempts |-> prev.attempts + 1,
   correct |-> prev.correct + (IF isMatch THEN 1 ELSE 0),
   streak |-> NewStreak(prev, isMatch),
   ruleChanges |-> prev.ruleChanges,
   perseverativeErrors |->
     prev.perseverativeErrors + (IF isPersev THEN 1 ELSE 0)]

\* variation: the switch resets the streak but is not counted
RuleChangedStats_NoCount(prev) == [prev EXCEPT !.streak = 0]

\* the updater of changeRule: { ...prev, ruleChanges + 1, streak: 0 }
RuleChangedStats(prev) ==
  [prev EXCEPT !.ruleChanges = @ + 1, !.streak = 0]

\* variation: any positive streak triggers the switch
ReachedThreshold_AnyStreak(streak) == streak > 0

\* streak > 0 && streak % CARDS_TO_CHANGE_RULE === 0
ReachedThreshold(streak) ==
  streak > 0 /\ streak % CARDS_TO_CHANGE_RULE = 0

\* variation: the current rule is not filtered out
AvailableRules_All(current) == Rules

\* rules.filter(r => r !== currentRule)
AvailableRules(current) == {r \in Rules : r # current}

\* variation: the guard does not look at feedback
Rejects2D_NoFeedbackCheck == targetCard = NullCard

\* if (!targetCard || feedback) return;
Rejects2D == targetCard = NullCard \/ feedback # Null

\* variation: the guard does not look at isAnimating
Rejects3D_NoAnimatingCheck == targetCard = NullCard

\* if (!targetCard || gameStateRef.current.isAnimating) return;
Rejects3D == targetCard = NullCard \/ isAnimating

\* ----------------------------------------------------------------- timers
UnlockTimer == [kind |-> "unlock", delay |-> FEEDBACK_DELAY]
ChangeRuleTimer == [kind |-> "changeRule", delay |-> CHANGE_RULE_DELAY]

\* the changeRule timers one update of stats registers
ScheduledChangeRules(newStreak, invocations) ==
  IF ReachedThreshold(newStreak)
  THEN [i \in 1..invocations |-> ChangeRuleTimer]
  ELSE << >>

\* index of the timer the event loop runs next: the earliest deadline, and
\* among equal deadlines the one registered first
NextTimer ==
  CHOOSE i \in 1..Len(timers) :
    \A j \in 1..Len(timers) :
      \/ timers[i].delay < timers[j].delay
      \/ timers[i].delay = timers[j].delay /\ i <= j

RemoveAt(s, i) == [k \in 1..(Len(s) - 1) |-> IF k < i THEN s[k] ELSE s[k + 1]]

\* ------------------------------------------------- the 2D component as twin
\* const rules = ['color', 'shape', 'number', 'size'] and its filter, in
\* array order: Math.random() picks an index of the filtered array
RuleOrder == <<"color", "shape", "number", "size">>
FilteredRules(current) == SelectSeq(RuleOrder, LAMBDA r : r # current)

\* the state of a 2D component after construction; no state is kept for a
\* twin that is off
TwinInitial(on) ==
  IF on
  THEN [on |-> TRUE, currentRule |-> "color", previousRule |-> Null,
        targetCard |-> NullCard, feedback |-> Null, stats |-> InitialStats]
  ELSE [on |-> FALSE]

\* generateNewCard() of the twin, given the same card
TwinShow(t, card) ==
  IF t.on THEN [t EXCEPT !.targetCard = card, !.feedback = Null] ELSE t

\* handleCardClick(refCard) of the twin
TwinClick(t, refCard) ==
  IF ~t.on \/ t.targetCard = NullCard \/ t.feedback # Null
  THEN t
  ELSE LET isMatch == checkMatch(t.targetCard, refCard, t.currentRule)
           isPersev == IsPerseverative(t.targetCard, refCard, isMatch,
                                       t.previousRule)
       IN [t EXCEPT !.feedback = IF isMatch THEN "correct" ELSE "incorrect",
                    !.stats = EvaluatedStats(t.stats, isMatch, isPersev)]

\* the effect on [stats.streak] of the twin, run with the random number
\* that made the 3D component go from `current` to `newRule`
TwinChangeRule(t, current, newRule) ==
  IF t.on /\ ReachedThreshold(t.stats.streak)
  THEN LET draw == CHOOSE k \in 1..Len(FilteredRules(current)) :
                     FilteredRules(current)[k] = newRule
       IN [t EXCEPT !.previousRule = t.currentRule,
                    !.currentRule = FilteredRules(t.currentRule)[draw],
                    !.stats = RuleChangedStats(t.stats)]
  ELSE t

\* ------------------------------------------------------------------- Init
Init ==
  /\ variant \in Variants
  /\ currentRule = "color"
  /\ previousRule = Null
  /\ targetCard = NullCard
  /\ feedback = Null
  /\ stats = InitialStats
  /\ isAnimating = FALSE
  /\ timers = << >>
  /\ effectPending = FALSE
  /\ lastEvent = "init"
  /\ selected = NullCard
  /\ atSubmit = [currentRule |-> "color", previousRule |-> Null,
                 stats |-> InitialStats]
  /\ evals = 0
  /\ roundSwitches = 0
  /\ switches = 0
  /\ twin = TwinInitial(FALSE)

\* a 3D component with a 2D twin that receives the same targets, the same
\* selections and the same random choices of rule
PairInit ==
  /\ variant = "3D"
  /\ currentRule = "color"
  /\ previousRule = Null
  /\ targetCard = NullCard
  /\ feedback = Null
  /\ stats = InitialStats
  /\ isAnimating = FALSE
  /\ timers = << >>
  /\ effectPending = FALSE
  /\ lastEvent = "init"
  /\ selected = NullCard
  /\ atSubmit = [currentRule |-> "color", previousRule |-> Null,
                 stats |-> InitialStats]
  /\ evals = 0
  /\ roundSwitches = 0
  /\ switches = 0
  /\ twin = TwinInitial(TRUE)

\* ---------------------------------------------------------------- actions
\* the mount effect: generateNewCard(); it runs once, and targetCard is
\* never null again afterwards
Mount ==
  /\ targetCard = NullCard
  /\ \E card \in Cards : targetCard' = card
  /\ twin' = TwinShow(twin, targetCard')
  /\ lastEvent' = "mount"
  /\ UNCHANGED <<variant, currentRule, previousRule, feedback, stats,
                 isAnimating, timers, effectPending, selected, atSubmit,
                 evals, roundSwitches, switches>>

\* what an accepted selection records in the history variables
RecordEvaluation(refCard) ==
  /\ lastEvent' = "click"
  /\ selected' = refCard
  /\ atSubmit' = [currentRule |-> currentRule, previousRule |-> previousRule,
                  stats |-> stats]
  /\ evals' = evals + 1
  /\ UNCHANGED <<roundSwitches, switches>>

\* a selection the handler returns from without doing anything
RecordIgnored ==
  /\ lastEvent' = "ignored"
  /\ UNCHANGED <<selected, atSubmit, evals, roundSwitches, switches>>

\* 2D: handleCardClick(refCard), with the render that follows it
handleCardClick(refCard) ==
  /\ variant = "2D"
  /\ IF Rejects2D
     THEN /\ UNCHANGED progVars
          /\ RecordIgnored
     ELSE LET isMatch == checkMatch(targetCard, refCard, currentRule)
              isPersev == IsPerseverative(targetCard, refCard, isMatch,
                                          previousRule)
              newStats == EvaluatedStats(stats, isMatch, isPersev)
          IN /\ stats.attempts < MaxAttempts
             /\ feedback' = (IF isMatch THEN "correct" ELSE "incorrect")
             /\ stats' = newStats
             /\ timers' = Append(timers, UnlockTimer)
             /\ effectPending' =
                  (effectPending \/ newStats.streak # stats.streak)
             /\ UNCHANGED <<currentRule, previousRule, targetCard,
                            isAnimating>>
             /\ RecordEvaluation(refCard)
  /\ UNCHANGED <<variant, twin>>

\* 3D: handleCardSelection(refCard), with the render that follows it; the
\* updater of setStats runs `invocations` times during that render
handleCardSelection(refCard, invocations) ==
  /\ variant = "3D"
  /\ IF Rejects3D
     THEN /\ UNCHANGED progVars
          /\ RecordIgnored
     ELSE LET isMatch == checkMatch(targetCard, refCard, currentRule)
              isPersev == IsPerseverative(targetCard, refCard, isMatch,
                                          previousRule)
              newStats == EvaluatedStats(stats, isMatch, isPersev)
          IN /\ stats.attempts < MaxAttempts
             /\ isAnimating' = TRUE
             /\ feedback' = (IF isMatch THEN "correct" ELSE "incorrect")
             /\ stats' = newStats
             /\ timers' = Append(timers, UnlockTimer)
                            \o ScheduledChangeRules(newStats.streak,
                                                    invocations)
             /\ UNCHANGED <<currentRule, previousRule, targetCard,
                            effectPending>>
             /\ RecordEvaluation(refCard)
  /\ twin' = TwinClick(twin, refCard)
  /\ UNCHANGED variant

\* changeRule() of either component, with the render that follows it
changeRule(newRule) ==
  /\ newRule \in AvailableRules(currentRule)
  /\ previousRule' = currentRule
  /\ currentRule' = newRule
  /\ stats' = RuleChangedStats(stats)
  /\ lastEvent' = "changeRule"
  /\ roundSwitches' = roundSwitches + 1
  /\ switches' = switches + 1
  /\ twin' = TwinChangeRule(twin, currentRule, newRule)
  /\ UNCHANGED <<variant, targetCard, feedback, isAnimating, selected,
                 atSubmit, evals>>

\* 2D: useEffect(() => { if (...) changeRule(); }, [stats.streak])
StreakEffect ==
  /\ variant = "2D"
  /\ effectPending
  /\ IF ReachedThreshold(stats.streak)
     THEN /\ \E newRule \in Rules : changeRule(newRule)
          /\ effectPending' = TRUE
          /\ UNCHANGED timers
     ELSE /\ effectPending' = FALSE
          /\ lastEvent' = "effect"
          /\ UNCHANGED <<variant, currentRule, previousRule, targetCard,
                         feedback, stats, isAnimating, timers, selected,
                         atSubmit, evals, roundSwitches, switches, twin>>

\* 3D: the callback of setTimeout(changeRule, 100)
ChangeRuleTimeout ==
  /\ variant = "3D"
  /\ timers # << >>
  /\ timers[NextTimer].kind = "changeRule"
  /\ timers' = RemoveAt(timers, NextTimer)
  /\ \E newRule \in Rules : changeRule(newRule)
  /\ UNCHANGED effectPending

\* variation: the callback does not release isAnimating
FeedbackTimeoutFrom_KeepsAnimating(cards) ==
  /\ timers # << >>
  /\ ~effectPending
  /\ timers[NextTimer].kind = "unlock"
  /\ timers' = RemoveAt(timers, NextTimer)
  /\ feedback' = Null
  /\ \E card \in cards : /\ targetCard' = card
                          /\ twin' = TwinShow(twin, card)
  /\ lastEvent' = "unlock"
  /\ selected' = NullCard
  /\ evals' = 0
  /\ roundSwitches' = 0
  /\ UNCHANGED <<variant, currentRule, previousRule, stats, effectPending,
                 atSubmit, switches, isAnimating>>

\* the callback of the 1000 ms timer: clear the feedback, present a new
\* target (and, in 3D, release isAnimating).  A pending passive effect is
\* flushed long before any timer is due.  `cards` are the cards
\* generateNewCard() draws from.
FeedbackTimeoutFrom(cards) ==
  /\ timers # << >>
  /\ ~effectPending
  /\ timers[NextTimer].kind = "unlock"
  /\ timers' = RemoveAt(timers, NextTimer)
  /\ feedback' = Null
  /\ \E card \in cards : /\ targetCard' = card
                          /\ twin' = TwinShow(twin, card)
  /\ isAnimating' = FALSE
  /\ lastEvent' = "unlock"
  /\ selected' = NullCard
  /\ evals' = 0
  /\ roundSwitches' = 0
  /\ UNCHANGED <<variant, currentRule, previousRule, stats, effectPending,
                 atSubmit, switches>>

FeedbackTimeout == FeedbackTimeoutFrom(Cards)

Next ==
  \/ Mount
  \/ \E i \in 1..Len(referenceCards) : handleCardClick(referenceCards[i])
  \/ \E i \in 1..Len(referenceCards), n \in UpdaterInvocations :
       handleCardSelection(referenceCards[i], n)
  \/ StreakEffect
  \/ ChangeRuleTimeout
  \/ FeedbackTimeout

Spec == Init /\ [][Next]_vars

\* the targets drawn after the first one when progress is checked: one card
\* per colour, enough for correct and incorrect answers under every rule
LiveCards ==
  {c \in Cards : c.shape = "circle" /\ c.number = 1 /\ c.size = "small"}

LiveFeedbackTimeout == FeedbackTimeoutFrom(LiveCards)

LiveNext ==
  \/ Mount
  \/ \E i \in 1..Len(referenceCards) : handleCardClick(referenceCards[i])
  \/ \E i \in 1..Len(referenceCards), n \in UpdaterInvocations :
       handleCardSelection(referenceCards[i], n)
  \/ StreakEffect
  \/ ChangeRuleTimeout
  \/ LiveFeedbackTimeout

\* the timers are run by the event loop and the passive effects by React:
\* a callback that is due is eventually called
FairSpec ==
  /\ Init /\ [][LiveNext]_vars
  /\ WF_vars(StreakEffect)
  /\ WF_vars(ChangeRuleTimeout)
  /\ WF_vars(LiveFeedbackTimeout)

\* cards that are not reference cards, handed to the handlers by a caller
\* other than the two user interfaces
ForeignCards ==
  {[color |-> "red", shape |-> "square", number |-> 2, size |-> "large"]}

SubmittableCards ==
  {referenceCards[i] : i \in 1..Len(referenceCards)} \cup ForeignCards

\* the handlers called with any card
AnyCardNext ==
  \/ Mount
  \/ \E card \in SubmittableCards : handleCardClick(card)
  \/ \E card \in SubmittableCards, n \in UpdaterInvocations :
       handleCardSelection(card, n)
  \/ StreakEffect
  \/ ChangeRuleTimeout
  \/ FeedbackTimeout

AnyCardSpec == Init /\ [][AnyCardNext]_vars

\* the events of the 3D component, each delivered to the twin as well
PairNext ==
  \/ Mount
  \/ \E i \in 1..Len(referenceCards), n \in UpdaterInvocations :
       handleCardSelection(referenceCards[i], n)
  \/ ChangeRuleTimeout
  \/ FeedbackTimeout

PairSpec == PairInit /\ [][PairNext]_vars

\* ------------------------------------------------- vocabulary of the claims
\* the feedback window of an evaluation is open: its 1000 ms timer is pending
WindowOpen == \E i \in 1..Len(timers) : timers[i].kind = "unlock"

\* a changeRule scheduled by an evaluation has not run yet
SwitchPending ==
  \/ \E i \in 1..Len(timers) : timers[i].kind = "changeRule"
  \/ effectPending /\ ReachedThreshold(stats.streak)

\* a target is live and the component would evaluate a selection
Selectable ==
  /\ targetCard # NullCard
  /\ IF variant = "2D" THEN feedback = Null ELSE ~isAnimating

\* the last evaluation, and nothing evaluated since
Evaluated == stats.attempts = atSubmit.stats.attempts + 1
EvaluatedCorrect == Evaluated /\ stats.correct = atSubmit.stats.correct + 1
EvaluatedIncorrect == Evaluated /\ stats.correct = atSubmit.stats.correct

\* the next target has just been presented after an evaluation
NextTargetShown == lastEvent = "unlock" /\ Selectable

\* C1: a selection submitted while the feedback window is open, or while no
\* target card exists, changes nothing of the program's state: the rules,
\* the target, the feedback, the statistics and the pending timers.
C1_LockedSelectionIsNoOp ==
  [][ ( /\ lastEvent' \in {"click", "ignored"}
        /\ (WindowOpen \/ targetCard = NullCard) )
      => UNCHANGED progVars ]_vars

\* C1 witness: a selection was submitted inside the window of an evaluation
C1_Witness ==
  /\ lastEvent = "ignored"
  /\ WindowOpen
  /\ stats.attempts >= 1
  /\ feedback # Null

\* C2: a target card is evaluated at most once: between its presentation and
\* its replacement attempts increases by at most 1.
C2_AtMostOneEvaluationPerTarget ==
  /\ evals <= 1
  /\ evals = 1 => Evaluated

\* C2 witness: a second selection arrived for a target already evaluated
\* after a changeRule timer ran inside the same window
C2_Witness ==
  /\ evals = 1
  /\ lastEvent = "ignored"
  /\ roundSwitches >= 1
  /\ WindowOpen

\* C3: when the next target is shown after the 5th consecutive correct
\* evaluation, exactly one switch has happened: previousRule is the rule
\* those answers were judged by, currentRule differs from it, streak is 0
\* and ruleChanges has grown by exactly 1.
C3_FifthCorrectSwitchesExactlyOnce ==
  ( /\ NextTargetShown
    /\ EvaluatedCorrect
    /\ atSubmit.stats.streak = CARDS_TO_CHANGE_RULE - 1 )
  => /\ switches = atSubmit.stats.ruleChanges + 1
     /\ previousRule = atSubmit.currentRule
     /\ currentRule # atSubmit.currentRule
     /\ stats.streak = 0
     /\ stats.ruleChanges = atSubmit.stats.ruleChanges + 1

\* C4: from an incorrect evaluation until the next evaluation streak is 0
\* and currentRule, previousRule and ruleChanges keep the values they had
\* when the selection was submitted; no switch is scheduled.
C4_IncorrectResetsStreakNeverSwitches ==
  EvaluatedIncorrect
  => /\ stats.streak = 0
     /\ currentRule = atSubmit.currentRule
     /\ previousRule = atSubmit.previousRule
     /\ stats.ruleChanges = atSubmit.stats.ruleChanges
     /\ ~SwitchPending

\* C4 witness: the next target is shown after an incorrect answer that broke
\* a streak of 4
C4_Witness ==
  /\ NextTargetShown
  /\ EvaluatedIncorrect
  /\ atSubmit.stats.streak = CARDS_TO_CHANGE_RULE - 1
  /\ stats.streak = 0

\* the step is an evaluation: the statistics record one more attempt
EvaluationStep == stats'.attempts # stats.attempts

\* C5: an evaluation adds 1 to perseverativeErrors exactly when the selected
\* card does not match the target on currentRule, previousRule is set and
\* the card matches the target on previousRule; otherwise, and in every
\* step that is not an evaluation, perseverativeErrors is unchanged.
C5_PerseverativeIffOldRuleOnly ==
  [][ IF EvaluationStep
      THEN /\ stats'.perseverativeErrors \in
                {stats.perseverativeErrors, stats.perseverativeErrors + 1}
           /\ (stats'.perseverativeErrors = stats.perseverativeErrors + 1)
              <=> ( /\ targetCard[currentRule] # selected'[currentRule]
                    /\ previousRule # Null
                    /\ targetCard[previousRule] = selected'[previousRule] )
      ELSE stats'.perseverativeErrors = stats.perseverativeErrors ]_vars

\* C5 witness: the first selection after the first switch matched the target
\* on the old rule only, and was counted
C5_Witness ==
  /\ lastEvent = "click"
  /\ atSubmit.stats.attempts = CARDS_TO_CHANGE_RULE
  /\ atSubmit.stats.ruleChanges = 1
  /\ atSubmit.stats.perseverativeErrors = 0
  /\ stats.perseverativeErrors = 1
  /\ targetCard[atSubmit.previousRule] = selected[atSubmit.previousRule]
  /\ targetCard[atSubmit.currentRule] # selected[atSubmit.currentRule]

\* C6: an evaluation adds exactly 1 to attempts, shows "correct" exactly when
\* the target and the selected card agree on the rule in force at the
\* submission and "incorrect" otherwise, adds 1 to correct and to streak
\* exactly in the "correct" case, and leaves correct unchanged otherwise.
C6_EvaluationCountsAndFeedback ==
  [][ EvaluationStep
      => LET agree == targetCard[currentRule] = selected'[currentRule]
         IN /\ stats'.attempts = stats.attempts + 1
            /\ feedback' = (IF agree THEN "correct" ELSE "incorrect")
            /\ stats'.correct = stats.correct + (IF agree THEN 1 ELSE 0)
            /\ agree => stats'.streak = stats.streak + 1 ]_vars

\* C6 witness: the first selection of the session, the red reference card
\* for the target red/circle/1/small
C6_Witness ==
  /\ targetCard = [color |-> "red", shape |-> "circle", number |-> 1,
                   size |-> "small"]
  /\ selected = referenceCards[1]
  /\ feedback = "correct"
  /\ stats.attempts = 1 /\ stats.correct = 1 /\ stats.streak = 1

\* C7: between the presentation of one target and the next changeRule runs
\* at most once.
C7_AtMostOneSwitchPerRound == roundSwitches <= 1

\* C8: whenever the component would evaluate a selection, streak is in 0..4
\* and no changeRule is pending; and every evaluation starts from such a
\* state.
C8_NoEvaluationSeesPendingSwitch ==
  /\ [](Selectable => (stats.streak \in 0..(CARDS_TO_CHANGE_RULE - 1)
                        /\ ~SwitchPending))
  /\ [][ EvaluationStep
         => (stats.streak \in 0..(CARDS_TO_CHANGE_RULE - 1)
              /\ ~SwitchPending) ]_vars

\* C8 witness: a selection was evaluated on the first target shown after a
\* switch
C8_Witness ==
  /\ lastEvent = "click"
  /\ atSubmit.stats.ruleChanges >= 1
  /\ atSubmit.stats.attempts = CARDS_TO_CHANGE_RULE
  /\ atSubmit.previousRule = "color"

\* C9: the statistics published by the 5th consecutive correct evaluation
\* already carry the switch (ruleChanges + 1, streak 0, previousRule the
\* rule that was in force), and no published statistics have streak = 5.
C9_FifthResultReportsSwitch ==
  /\ stats.streak # CARDS_TO_CHANGE_RULE
  /\ ( EvaluatedCorrect
       /\ atSubmit.stats.streak = CARDS_TO_CHANGE_RULE - 1 )
     => /\ stats.ruleChanges = atSubmit.stats.ruleChanges + 1
        /\ stats.streak = 0
        /\ previousRule = atSubmit.currentRule

\* C10: a step adds exactly 1 to ruleChanges if and only if it replaces
\* currentRule, and then previousRule becomes the replaced rule; no other
\* step changes ruleChanges or previousRule; ruleChanges always equals the
\* number of switches performed.
C10_RuleChangesInLockStep ==
  /\ [](stats.ruleChanges = switches)
  /\ [][ IF currentRule' # currentRule
         THEN /\ stats'.ruleChanges = stats.ruleChanges + 1
              /\ previousRule' = currentRule
              /\ switches' = switches + 1
         ELSE /\ stats'.ruleChanges = stats.ruleChanges
              /\ previousRule' = previousRule
              /\ switches' = switches ]_vars

\* C10 witness: a switch has just been performed and counted
C10_Witness ==
  /\ lastEvent = "changeRule"
  /\ switches = 1
  /\ stats.ruleChanges = 1
  /\ previousRule = "color"
  /\ currentRule # "color"

\* C11: currentRule changes only in the round of a correct evaluation that
\* brought streak to a positive multiple of 5, while the feedback of that
\* evaluation is still shown: never after an incorrect evaluation, never
\* after one that left streak at 1..4, never without an evaluation.
C11_RuleChangesOnlyAfterThreshold ==
  [][ currentRule' # currentRule
      => /\ evals = 1
         /\ WindowOpen
         /\ EvaluatedCorrect
         /\ (atSubmit.stats.streak + 1) % CARDS_TO_CHANGE_RULE = 0
         /\ currentRule = atSubmit.currentRule \/ roundSwitches >= 1 ]_vars

\* C11 witness: the rule has just changed after the 5th correct answer
C11_Witness ==
  /\ lastEvent = "changeRule"
  /\ roundSwitches = 1
  /\ EvaluatedCorrect
  /\ atSubmit.stats.streak = CARDS_TO_CHANGE_RULE - 1
  /\ currentRule # atSubmit.currentRule

\* C12: no step decreases attempts, correct, perseverativeErrors or
\* ruleChanges, and every step that is an incorrect evaluation or a rule
\* switch leaves streak at 0.
C12_CountersMonotoneStreakResets ==
  [][ /\ stats'.attempts >= stats.attempts
      /\ stats'.correct >= stats.correct
      /\ stats'.perseverativeErrors >= stats.perseverativeErrors
      /\ stats'.ruleChanges >= stats.ruleChanges
      /\ (EvaluationStep /\ stats'.correct = stats.correct)
           => stats'.streak = 0
      /\ currentRule' # currentRule => stats'.streak = 0 ]_vars

\* C12 witness: an incorrect answer after the first switch, with a correct
\* count and a switch count that had to be kept
C12_Witness ==
  /\ lastEvent = "click"
  /\ feedback = "incorrect"
  /\ stats.streak = 0
  /\ stats.correct = CARDS_TO_CHANGE_RULE
  /\ stats.ruleChanges >= 1

\* the reference cards that match card c on rule r
MatchingReferences(c, r) ==
  {i \in 1..Len(referenceCards) : checkMatch(c, referenceCards[i], r)}

\* C13: every live target is matched by exactly one reference card on
\* color, on shape and on number; on size a small or large target is matched
\* by exactly one and a medium target by exactly the 2nd and the 4th; and
\* with currentRule = size either of these two selections is judged correct.
C13_SizeRuleIsAmbiguous ==
  targetCard # NullCard
  => /\ \A r \in {"color", "shape", "number"} :
          Cardinality(MatchingReferences(targetCard, r)) = 1
     /\ targetCard.size # "medium"
          => Cardinality(MatchingReferences(targetCard, "size")) = 1
     /\ targetCard.size = "medium"
          => MatchingReferences(targetCard, "size") = {2, 4}
     /\ ( /\ lastEvent = "click"
          /\ atSubmit.currentRule = "size"
          /\ targetCard.size = "medium"
          /\ selected \in {referenceCards[2], referenceCards[4]} )
        => feedback = "correct"

\* C13 witness: under the rule size the 4th reference card was selected for
\* a medium target that the 2nd matches as well, and was judged correct
C13_Witness ==
  /\ lastEvent = "click"
  /\ atSubmit.currentRule = "size"
  /\ targetCard.size = "medium"
  /\ selected = referenceCards[4]
  /\ checkMatch(targetCard, referenceCards[2], "size")
  /\ feedback = "correct"

\* C16: feedback is shown exactly while the feedback window is open, the
\* target is not replaced while it stays open, and in the 3D component
\* isAnimating is true exactly when feedback is shown.
C16_FeedbackAgreesWithLock ==
  /\ []((feedback # Null) <=> WindowOpen)
  /\ [](variant = "3D" => (isAnimating <=> feedback # Null))
  /\ [](feedback = Null => (Selectable \/ targetCard = NullCard))
  /\ [][ (WindowOpen /\ WindowOpen') => targetCard' = targetCard ]_vars

\* C16 witness: the 3D component shows feedback, is animating, and a
\* changeRule timer has already run inside the window
C16_Witness ==
  /\ variant = "3D"
  /\ isAnimating
  /\ feedback = "correct"
  /\ WindowOpen
  /\ lastEvent = "changeRule"

\* C17: previousRule is unset exactly while ruleChanges = 0, and once set it
\* differs from currentRule.
C17_PreviousRuleSetBySwitch ==
  /\ (previousRule = Null) <=> (stats.ruleChanges = 0)
  /\ previousRule # currentRule

\* C17 witness: after a switch previousRule is set and differs from
\* currentRule
C17_Witness ==
  /\ stats.ruleChanges = 1
  /\ previousRule = "color"
  /\ currentRule \in Rules \ {"color"}
  /\ lastEvent = "unlock"

\* C18: 0 <= streak <= 5, correct <= attempts, perseverativeErrors <=
\* attempts - correct, and correct >= 5 * ruleChanges + streak.
C18_CountersConsistent ==
  /\ stats.streak \in 0..CARDS_TO_CHANGE_RULE
  /\ stats.correct <= stats.attempts
  /\ stats.perseverativeErrors <= stats.attempts - stats.correct
  /\ stats.correct >= CARDS_TO_CHANGE_RULE * stats.ruleChanges + stats.streak

\* C19: the 2D and the 3D component, given the same targets, selections and
\* random choices of rule, show the same feedback for every selection and
\* have equal statistics and rules whenever a target becomes selectable.
C19_ComponentsInterchangeable ==
  twin.on
  => /\ twin.feedback = feedback
     /\ twin.targetCard = targetCard
     /\ Selectable
          => /\ twin.stats = stats
             /\ twin.currentRule = currentRule
             /\ twin.previousRule = previousRule

C15_LockIsReleasedByTimerOnly ==
  /\ WindowOpen ~> ( /\ lastEvent = "unlock"
                     /\ feedback = Null
                     /\ targetCard \in Cards
                     /\ Selectable )
  /\ [][ (WindowOpen /\ ~WindowOpen')
         => /\ lastEvent' = "unlock"
            /\ feedback' = Null
            /\ targetCard' \in Cards
            /\ Selectable' ]_vars
  /\ [][ (~Selectable /\ targetCard # NullCard /\ Selectable')
         => lastEvent' = "unlock" ]_vars

\* C15 witness: the window of an evaluation that caused a switch has been
\* closed and the next target can be selected
C15_Witness ==
  /\ lastEvent = "unlock"
  /\ Selectable
  /\ feedback = Null
  /\ ~WindowOpen
  /\ stats.attempts = CARDS_TO_CHANGE_RULE
  /\ stats.ruleChanges >= 1

====
